---- MODULE Spec2Model ----
(***************************************************************************)
(* Package hue: ECMA-48 colour escape sequences around text.               *)
(*                                                                         *)
(*   hue            a foreground / background colour pair                  *)
(*   String         an encoded string, Encode / Decode                     *)
(*   Writer         an io.Writer that wraps every write in one hue         *)
(*   RegexpWriter   an io.Writer that colours the matches of its rules     *)
(*                                                                         *)
(* Bytes are the integers 0..255 and strings are sequences of bytes.       *)
(* Three specifications share the variables: Spec (RegexpWriter),          *)
(* SpecWriter (Writer) and SpecCodec (Encode / Decode).                    *)
(***************************************************************************)
EXTENDS Integers, Sequences, FiniteSets

VARIABLES
    pc,       \* the caller's position: "ready", or "done" when a call has returned
    last,     \* the most recent call: [op, p, snk]
    rules,    \* RegexpWriter.rules
    added,    \* history: the rules passed to AddRule since construction or the last flush
    flushed,  \* history: number of FlushRules calls in a row (capped at 2)
    hadRules, \* history: some FlushRules call removed at least one rule
    whue,     \* Writer.hue
    hset,     \* history: the hue most recently passed to NewWriter or SetHue
    huemap,   \* the per-byte rule index computed by the last RegexpWriter.Write
    calls,    \* the writes the last call made to the wrapped io.Writer, in order
    stdout,   \* the bytes the last call printed on os.Stdout
    ret,      \* the (n, err) the last call returned
    hs,       \* codec: the String produced by the last Encode
    src,      \* codec: the arguments of that Encode
    dec       \* codec: the outcome of the last Decode

vars == <<pc, last, rules, added, flushed, hadRules, whue, hset, huemap, calls,
          stdout, ret, hs, src, dec>>

----------------------------------------------------------------------------
(* Bounds of the model *)

\* Longest buffer or text handed to Write / Encode.
MaxLen == 3

\* Most rules added one at a time with AddRule.
MaxRules == 2

\* The long rule lists the writer may already hold at the start have
\* ManyRules, ManyRules + 1 and ManyRules + 2 rules.
ManyRules == 255

\* Largest number of bytes a failing sink accepts before it reports an error.
MaxRoom == 9

\* The bytes buffers are made of: 'a', 'X' and one byte above 127.
Alphabet == {97, 88, 200}

\* The bytes of the texts given to Encode: ESC, 'm' and the byte \300.
TextAlphabet == {27, 109, 192}

RECURSIVE SeqsUpTo(_, _)
SeqsUpTo(S, n) ==
    IF n = 0 THEN {<<>>}
    ELSE LET shorter == SeqsUpTo(S, n - 1)
         IN  shorter \cup {Append(s, b) : s \in {t \in shorter : Len(t) = n - 1}, b \in S}

Buffers == SeqsUpTo(Alphabet, MaxLen)

Texts == SeqsUpTo(TextAlphabet, MaxLen)

----------------------------------------------------------------------------
(* Colour codes and the hue type *)

Black == 30
Red == 31
Green == 32
Brown == 33
Blue == 34
Magenta == 35
Cyan == 36
White == 37
Underline == 38
Default == 39

\* The defined colour codes, Black .. Default.
Colours == Black .. Default

\* Default in the earlier revision of the package, which has no Underline.
Default_v0 == 38

SetFg(h, c) == [h EXCEPT !.fg = c]

SetBg(h, c) == [h EXCEPT !.bg = c + 10]

\* The zero value hue{}.
ZeroHue == [fg |-> 0, bg |-> 0]

New(fg, bg) == SetBg(SetFg(ZeroHue, fg), bg)

----------------------------------------------------------------------------
(* Formatting (package fmt, as far as the package uses it) *)

\* %d of a non-negative integer: its decimal digits.
RECURSIVE FmtD(_)
FmtD(n) == IF n < 10 THEN <<48 + n>> ELSE FmtD(n \div 10) \o <<48 + (n % 10)>>

\* %c of a byte: the UTF-8 encoding of the code point with that number.
FmtC(b) == IF b < 128 THEN <<b>> ELSE <<192 + (b \div 64), 128 + (b % 64)>>

\* fmt.Sprintf(format, a) for a string a: the first %s verb is replaced by a,
\* every other byte of the format is copied.
RECURSIVE FmtS(_, _)
FmtS(format, a) ==
    IF format = <<>> THEN <<>>
    ELSE IF Len(format) >= 2 /\ format[1] = 37 /\ format[2] = 115
         THEN a \o SubSeq(format, 3, Len(format))
         ELSE <<format[1]>> \o FmtS(Tail(format), a)

\* "\033[%d;%dm"
ASCIIFmt(fg, bg) == <<27, 91>> \o FmtD(fg) \o <<59>> \o FmtD(bg) \o <<109>>

\* "\033[0m"
ASCIIReset == <<27, 91, 48, 109>>

\* "\033[%d;%dm%v\033[0m", the value being a string
ASCIIFmtReset(fg, bg, a) == ASCIIFmt(fg, bg) \o a \o ASCIIReset

----------------------------------------------------------------------------
(* String: Encode and Decode *)

Encode_index(h, a) == ASCIIFmtReset(h.fg - Black, h.bg, a)

\* Encode of a string a under the hue h.
Encode(h, a) == ASCIIFmtReset(h.fg, h.bg, a)

\* The earlier revision's Encode reads the exported fields Fg and Bg, puts
\* Default in place of a field that is 0 and adds 10 to Bg when formatting.
Encode_v0(h, a) ==
    LET fg == IF h.fg = 0 THEN Default_v0 ELSE h.fg
        bg == IF h.bg = 0 THEN Default_v0 ELSE h.bg
    IN  ASCIIFmt(fg, bg + 10) \o a \o ASCIIReset

\* hue.Sprintf(format, a): the encoded format is used as the format of a.
Sprintf(h, format, a) == FmtS(Encode(h, format), a)

Decode_le(s) ==
    IF Len(s) <= 12
    THEN [panic |-> TRUE, s |-> <<>>]
    ELSE [panic |-> FALSE, s |-> SubSeq(s, 9, Len(s) - 4)]

\* Decode panics on a String shorter than 12 bytes and otherwise returns
\* b[8 : len(b)-4].
Decode(s) ==
    IF Len(s) < 12
    THEN [panic |-> TRUE, s |-> <<>>]
    ELSE [panic |-> FALSE, s |-> SubSeq(s, 9, Len(s) - 4)]

----------------------------------------------------------------------------
(* The wrapped io.Writer *)

\* A sink either takes every byte, or takes `room` bytes during a call and
\* then fails: the write that does not fit is cut short and returns an error.
Sinks == {[limited |-> FALSE, room |-> 0]} \cup
         {[limited |-> TRUE, room |-> k] : k \in 0 .. MaxRoom}

\* wrapped.Write(buf) after `used` bytes were accepted: (nb, err).
SinkWrite(snk, used, buf) ==
    LET nb == IF snk.limited /\ snk.room - used < Len(buf)
              THEN snk.room - used
              ELSE Len(buf)
    IN  [nb |-> nb, err |-> nb < Len(buf)]

\* One entry of `calls`: the buffer handed to the sink and what came back.
\* esc tells a colour sequence from a payload byte.
Call(esc, buf, r) == [esc |-> esc, buf |-> buf, nb |-> r.nb, err |-> r.err]

RECURSIVE Accepted(_)
Accepted(log) == IF log = <<>> THEN 0 ELSE log[1].nb + Accepted(Tail(log))

\* The bytes the sink holds after the calls of `log`.
RECURSIVE SinkBytes(_)
SinkBytes(log) ==
    IF log = <<>> THEN <<>>
    ELSE SubSeq(log[1].buf, 1, log[1].nb) \o SinkBytes(Tail(log))

NoReturn == [n |-> 0, err |-> FALSE]

NoSink == [limited |-> FALSE, room |-> 0]

----------------------------------------------------------------------------
(* RegexpWriter *)

Rule(h, re) == [hue |-> h, re |-> re]

\* The rules AddRule is called with.  A regular expression is a literal,
\* non-empty byte string.
RuleChoices == { Rule(New(Green, Default), <<88>>),
                 Rule(New(Red, Blue), <<97, 88>>),
                 Rule(New(Green, Default), <<97>>) }

\* re.FindAllIndex(p, -1) of a literal: the leftmost non-overlapping
\* occurrences, each as <<start, end>> with 0-based start and exclusive end.
RECURSIVE FindFrom(_, _, _)
FindFrom(re, p, i) ==
    IF i + Len(re) > Len(p) THEN <<>>
    ELSE IF SubSeq(p, i + 1, i + Len(re)) = re
         THEN <<<<i, i + Len(re)>>>> \o FindFrom(re, p, i + Len(re))
         ELSE FindFrom(re, p, i + 1)

FindAllIndex(re, p) == FindFrom(re, p, 0)

\* byte(i)
Byte(i) == i % 256

\* One pass of the inner loops of Write for rule i: the entries of hm from j
\* on, with v = byte(i) stored wherever a match in x covers the byte.  hm is
\* indexed 1..Len(p), hm[j] belonging to the byte at offset j-1.
RECURSIVE Fill(_, _, _, _)
Fill(hm, x, v, j) ==
    IF j > Len(hm) THEN <<>>
    ELSE LET hit == \E k \in 1 .. Len(x) : x[k][1] <= j - 1 /\ j - 1 < x[k][2]
         IN  <<IF hit THEN v ELSE hm[j]>> \o Fill(hm, x, v, j + 1)

\* The body of the first loop of Write for rule i.
PaintRule(rs, p, i, hm) == Fill(hm, FindAllIndex(rs[i].re, p), Byte(i), 1)

\* The first loop of Write over the rules lo..hi in the order added.  The
\* range is split in halves, the lower half applied first, so that the
\* evaluation nests no deeper than the logarithm of the number of rules; the
\* test on Len(left) makes the lower half's map a value before the upper half
\* is entered and never takes its THEN branch.
RECURSIVE Paint(_, _, _, _, _)
Paint(rs, p, lo, hi, hm) ==
    IF lo > hi THEN hm
    ELSE IF lo = hi THEN PaintRule(rs, p, lo, hm)
    ELSE LET mid == (lo + hi) \div 2
             left == Paint(rs, p, lo, mid, hm)
         IN  IF Len(left) # Len(p) THEN left ELSE Paint(rs, p, mid + 1, hi, left)

\* huemap as the first loop leaves it: all 0, then painted by rules 1..Len(rs).
HueMap(rs, p) == Paint(rs, p, 1, Len(rs), [j \in 1 .. Len(p) |-> 0])

\* rulemap: entry 0 is the zero hue, entry i the hue of rule i.
RuleMap(rs, i) == IF i = 0 THEN ZeroHue ELSE rs[i].hue

\* The second loop of Write from byte i on, with `hue` the index in force,
\* n the count so far and log the calls made to the sink so far.
RECURSIVE WriteLoop_everybyte(_, _, _, _, _, _, _, _)
WriteLoop_everybyte(p, hm, rs, snk, i, hue, n, log) ==
    IF i > Len(p)
    THEN [n |-> n, err |-> FALSE, calls |-> log, stdout |-> ASCIIReset]
    ELSE LET change == hm[i] # hue
             th == RuleMap(rs, hm[i])
             e == ASCIIFmt(th.fg, th.bg)
             r1 == SinkWrite(snk, Accepted(log), e)
             log1 == IF change THEN Append(log, Call(TRUE, e, r1)) ELSE log
             n1 == IF change THEN n + r1.nb ELSE n
             c == FmtC(p[i])
             r2 == SinkWrite(snk, Accepted(log1), c)
             log2 == Append(log1, Call(FALSE, c, r2))
         IN  IF change /\ r1.err
             THEN [n |-> n, err |-> TRUE, calls |-> log1, stdout |-> <<>>]
             ELSE IF r2.err
             THEN [n |-> n1, err |-> TRUE, calls |-> log2, stdout |-> <<>>]
             ELSE WriteLoop_everybyte(p, hm, rs, snk, i + 1, hue, n1 + r2.nb, log2)

RECURSIVE WriteLoop(_, _, _, _, _, _, _, _)
WriteLoop(p, hm, rs, snk, i, hue, n, log) ==
    IF i > Len(p)
    THEN [n |-> n, err |-> FALSE, calls |-> log, stdout |-> ASCIIReset]
    ELSE LET change == hm[i] # hue
             th == RuleMap(rs, hm[i])
             e == ASCIIFmt(th.fg, th.bg)
             r1 == SinkWrite(snk, Accepted(log), e)
             log1 == IF change THEN Append(log, Call(TRUE, e, r1)) ELSE log
             n1 == IF change THEN n + r1.nb ELSE n
             c == FmtC(p[i])
             r2 == SinkWrite(snk, Accepted(log1), c)
             log2 == Append(log1, Call(FALSE, c, r2))
         IN  IF change /\ r1.err
             THEN [n |-> n, err |-> TRUE, calls |-> log1, stdout |-> <<>>]
             ELSE IF r2.err
             THEN [n |-> n1, err |-> TRUE, calls |-> log2, stdout |-> <<>>]
             ELSE WriteLoop(p, hm, rs, snk, i + 1,
                            IF change THEN hm[i] ELSE hue, n1 + r2.nb, log2)

\* RegexpWriter.Write(p) as a function of the rules and the sink.
RegexpWrite(rs, p, snk) == WriteLoop(p, HueMap(rs, p), rs, snk, 1, 0, 0, <<>>)

\* A writer that already holds k rules, each added with AddRule: the first
\* colours "X" red on blue, every later one colours "X" green.
Preload(k) ==
    [i \in 1 .. k |-> Rule(IF i = 1 THEN New(Red, Blue) ELSE New(Green, Default), <<88>>)]

----------------------------------------------------------------------------
(* State shared by the specifications *)

Op(name, p, snk) == [op |-> name, p |-> p, snk |-> snk]

NoSrc == [rev |-> "none", fg |-> 0, bg |-> 0, text |-> <<>>]

NoDec == [panic |-> FALSE, s |-> <<>>]

\* Nothing has been written, printed, returned, encoded or decoded.
Quiet ==
    /\ huemap = <<>>
    /\ calls = <<>>
    /\ stdout = <<>>
    /\ ret = NoReturn
    /\ hs = <<>>
    /\ src = NoSrc
    /\ dec = NoDec

NoWriter == [hue |-> ZeroHue, by |-> "none"]

\* The caller takes the result of the call that returned and empties the
\* buffers that captured the sink and standard output.
Collect ==
    /\ pc = "done"
    /\ pc' = "ready"
    /\ last' = Op("Collect", <<>>, NoSink)
    /\ huemap' = <<>>
    /\ calls' = <<>>
    /\ stdout' = <<>>
    /\ ret' = NoReturn
    /\ hs' = <<>>
    /\ src' = NoSrc
    /\ dec' = NoDec
    /\ UNCHANGED <<rules, added, flushed, hadRules, whue, hset>>

----------------------------------------------------------------------------
(* Spec: a RegexpWriter and its caller *)

\* NewRegexpWriter, or a writer to which AddRule was applied many times.
Init ==
    /\ pc = "ready"
    /\ last = Op("NewRegexpWriter", <<>>, NoSink)
    /\ rules \in {Preload(0), Preload(ManyRules), Preload(ManyRules + 1),
                  Preload(ManyRules + 2)}
    /\ added = rules
    /\ flushed = 0
    /\ hadRules = FALSE
    /\ whue = ZeroHue
    /\ hset = NoWriter
    /\ Quiet

AddRule(r) ==
    /\ pc = "ready"
    /\ Len(rules) < MaxRules
    /\ rules' = Append(rules, r)
    /\ added' = Append(added, r)
    /\ flushed' = 0
    /\ last' = Op("AddRule", <<>>, NoSink)
    /\ UNCHANGED <<pc, hadRules, whue, hset, huemap, calls, stdout, ret, hs, src, dec>>

FlushRules_keep ==
    /\ pc = "ready"
    /\ rules' = rules
    /\ added' = <<>>
    /\ flushed' = IF flushed < 2 THEN flushed + 1 ELSE 2
    /\ hadRules' = (hadRules \/ rules # <<>>)
    /\ last' = Op("FlushRules", <<>>, NoSink)
    /\ UNCHANGED <<pc, whue, hset, huemap, calls, stdout, ret, hs, src, dec>>

FlushRules ==
    /\ pc = "ready"
    /\ rules' = <<>>
    /\ added' = <<>>
    /\ flushed' = IF flushed < 2 THEN flushed + 1 ELSE 2
    /\ hadRules' = (hadRules \/ rules # <<>>)
    /\ last' = Op("FlushRules", <<>>, NoSink)
    /\ UNCHANGED <<pc, whue, hset, huemap, calls, stdout, ret, hs, src, dec>>

\* RegexpWriter.Write(p); the sink behaves as one of Sinks.  hm is the
\* huemap of the call, computed once.
Write(p) ==
    /\ pc = "ready"
    /\ \E hm \in {HueMap(rules, p)}, snk \in Sinks :
          \E r \in {WriteLoop(p, hm, rules, snk, 1, 0, 0, <<>>)} :
             /\ huemap' = hm
             /\ calls' = r.calls
             /\ stdout' = r.stdout
             /\ ret' = [n |-> r.n, err |-> r.err]
             /\ last' = Op("Write", p, snk)
    /\ pc' = "done"
    /\ flushed' = 0
    /\ UNCHANGED <<rules, added, hadRules, whue, hset, hs, src, dec>>

Next ==
    \/ \E r \in RuleChoices : AddRule(r)
    \/ FlushRules
    \/ \E p \in Buffers : Write(p)
    \/ Collect

Spec == Init /\ [][Next]_vars

----------------------------------------------------------------------------
(* SpecWriter: a Writer and its caller *)

WriterHues == {New(fg, bg) : fg \in Colours, bg \in Colours}

\* NewWriter(w, h)
InitWriter ==
    /\ pc = "ready"
    /\ last = Op("NewWriter", <<>>, NoSink)
    /\ rules = <<>>
    /\ added = <<>>
    /\ flushed = 0
    /\ hadRules = FALSE
    /\ \E h \in WriterHues :
          /\ whue = h
          /\ hset = [hue |-> h, by |-> "NewWriter"]
    /\ Quiet

SetHue_drop(h) ==
    /\ pc = "ready"
    /\ whue' = whue
    /\ hset' = [hue |-> h, by |-> "SetHue"]
    /\ last' = Op("SetHue", <<>>, NoSink)
    /\ UNCHANGED <<pc, rules, added, flushed, hadRules, huemap, calls, stdout, ret,
                   hs, src, dec>>

SetHue(h) ==
    /\ pc = "ready"
    /\ whue' = h
    /\ hset' = [hue |-> h, by |-> "SetHue"]
    /\ last' = Op("SetHue", <<>>, NoSink)
    /\ UNCHANGED <<pc, rules, added, flushed, hadRules, huemap, calls, stdout, ret,
                   hs, src, dec>>

\* Writer.Write(p): one write of w.Sprintf("%s", string(p)) to the sink,
\* whose (n, err) is returned.
WriterWrite(p, snk) ==
    /\ pc = "ready"
    /\ LET buf == Sprintf(whue, <<37, 115>>, p)
           r == SinkWrite(snk, 0, buf)
       IN  /\ calls' = <<Call(FALSE, buf, r)>>
           /\ ret' = [n |-> r.nb, err |-> r.err]
    /\ pc' = "done"
    /\ last' = Op("Writer.Write", p, snk)
    /\ UNCHANGED <<rules, added, flushed, hadRules, whue, hset, huemap, stdout,
                   hs, src, dec>>

NextWriter ==
    \/ pc = "ready" /\ \E h \in WriterHues : SetHue(h)
    \/ pc = "ready" /\ \E p \in Buffers, snk \in Sinks : WriterWrite(p, snk)
    \/ Collect

SpecWriter == InitWriter /\ [][NextWriter]_vars

----------------------------------------------------------------------------
(* SpecCodec: Encode and Decode applied to bounded inputs *)

InitCodec ==
    /\ pc = "ready"
    /\ last = Op("none", <<>>, NoSink)
    /\ rules = <<>>
    /\ added = <<>>
    /\ flushed = 0
    /\ hadRules = FALSE
    /\ whue = ZeroHue
    /\ hset = NoWriter
    /\ Quiet

\* h.SetFg(fg); h.SetBg(bg); hs := Encode(h, text)
CallEncode(fg, bg, text) ==
    /\ pc = "ready"
    /\ hs' = Encode(New(fg, bg), text)
    /\ src' = [rev |-> "hue", fg |-> fg, bg |-> bg, text |-> text]
    /\ pc' = "encoded"
    /\ last' = Op("Encode", text, NoSink)
    /\ UNCHANGED <<rules, added, flushed, hadRules, whue, hset, huemap, calls,
                   stdout, ret, dec>>

\* The earlier revision: h.Fg = fg; h.Bg = bg; hs := Encode(&h, text)
CallEncode_v0(fg, bg, text) ==
    /\ pc = "ready"
    /\ hs' = Encode_v0([fg |-> fg, bg |-> bg], text)
    /\ src' = [rev |-> "Hue", fg |-> fg, bg |-> bg, text |-> text]
    /\ pc' = "encoded"
    /\ last' = Op("Encode", text, NoSink)
    /\ UNCHANGED <<rules, added, flushed, hadRules, whue, hset, huemap, calls,
                   stdout, ret, dec>>

\* Decode of the first k bytes of the encoded string (all of it when
\* k = Len(hs)).
CallDecode(k) ==
    /\ pc = "encoded"
    /\ dec' = Decode(SubSeq(hs, 1, k))
    /\ pc' = "done"
    /\ last' = Op("Decode", SubSeq(hs, 1, k), NoSink)
    /\ UNCHANGED <<rules, added, flushed, hadRules, whue, hset, huemap, calls,
                   stdout, ret, hs, src>>

\* The colour codes of the earlier revision, and the unset value 0.
Colours_v0 == (Black .. Default_v0) \cup {0}

NextCodec ==
    \/ pc = "ready" /\ \E fg \in Colours, bg \in Colours, t \in Texts :
                          CallEncode(fg, bg, t)
    \/ pc = "ready" /\ \E fg \in Colours_v0, bg \in Colours_v0, t \in Texts :
                          CallEncode_v0(fg, bg, t)
    \/ pc = "encoded" /\ \E k \in 0 .. Len(hs) : CallDecode(k)
    \/ Collect

SpecCodec == InitCodec /\ [][NextCodec]_vars

----------------------------------------------------------------------------
(* Vocabulary of the properties *)

\* A RegexpWriter.Write has returned, and it returned without an error.
WriteDone == pc = "done" /\ last.op = "Write"

WriteOK == WriteDone /\ ~ret.err

Max(S) == CHOOSE m \in S : \A k \in S : k <= m

\* A match of re covers the byte at offset j-1 of p.
Covers(re, p, j) ==
    \E k \in 1 .. Len(FindAllIndex(re, p)) :
        /\ FindAllIndex(re, p)[k][1] <= j - 1
        /\ j - 1 < FindAllIndex(re, p)[k][2]

\* The number of the rule added last among those covering offset j-1, or 0.
LastCovering(rs, p, j) ==
    LET W == {i \in 1 .. Len(rs) : Covers(rs[i].re, p, j)}
    IN  IF W = {} THEN 0 ELSE Max(W)

\* The positions of log that carry colour sequences / payload bytes.
EscCalls(log) == {k \in 1 .. Len(log) : log[k].esc}

ByteCalls(log) == {k \in 1 .. Len(log) : ~log[k].esc}

\* The position in log of the call that wrote input byte j.
CallOfByte(log, j) ==
    CHOOSE k \in ByteCalls(log) : Cardinality({m \in ByteCalls(log) : m <= k}) = j

\* The colour sequence most recently sent when input byte j is written,
\* <<>> when none has been sent.
InForce(log, j) ==
    LET E == {k \in EscCalls(log) : k < CallOfByte(log, j)}
    IN  IF E = {} THEN <<>> ELSE log[Max(E)].buf

\* The input byte in front of which the call at position k of log is made.
ByteAfter(log, k) == Cardinality({m \in ByteCalls(log) : m < k}) + 1

\* The bytes of the payload calls of log, in order.
RECURSIVE Payload(_)
Payload(log) ==
    IF log = <<>> THEN <<>>
    ELSE (IF log[1].esc THEN <<>> ELSE log[1].buf) \o Payload(Tail(log))

\* The offsets (1-based) at which the index in hm differs from the one before
\* it, the index before the first byte being 0.
Changes(hm) == {j \in 1 .. Len(hm) : hm[j] # (IF j = 1 THEN 0 ELSE hm[j - 1])}

\* The sequences that leave a byte uncoloured: none sent yet, ESC[0m, ESC[0;0m.
NoColour == {<<>>, ASCIIReset, ASCIIFmt(0, 0)}

----------------------------------------------------------------------------
(* Properties of RegexpWriter (specification Spec) *)

\* C1 (as claimed): after a Write that met no sink error, every input byte is
\* written under the colour of the rule added last among the rules with a
\* match covering it, and uncoloured when no rule's match covers it.
C1_RulePrecedence ==
    WriteOK =>
        \A j \in 1 .. Len(last.p) :
            LET i == LastCovering(rules, last.p, j)
            IN  IF i = 0
                THEN InForce(calls, j) \in NoColour
                ELSE InForce(calls, j) = ASCIIFmt(rules[i].hue.fg, rules[i].hue.bg)

\* C2 (as claimed): a writer without rules whose sink takes every byte leaves
\* in the sink the input followed by one reset sequence ESC[0m and nothing else.
C2_NoRuleIdentity ==
    (WriteOK /\ rules = <<>>) => SinkBytes(calls) = last.p \o ASCIIReset

\* C4 (as claimed): a colour sequence is sent in front of byte j exactly when
\* the index of byte j differs from the index in force, and it is ESC[fg;bgm
\* of the rule with the new index, or the reset sequence ESC[0m when the new
\* index is 0.
C4_EscapeEmission ==
    WriteOK =>
        /\ \A j \in 1 .. Len(last.p) :
              (j \in Changes(huemap)) <=>
                  (CallOfByte(calls, j) - 1 \in EscCalls(calls))
        /\ \A k \in EscCalls(calls) :
              LET idx == huemap[ByteAfter(calls, k)]
              IN  calls[k].buf = IF idx = 0
                                 THEN ASCIIReset
                                 ELSE ASCIIFmt(rules[idx].hue.fg, rules[idx].hue.bg)

\* The matches all rules together have in p: <<i, k>> is match k of rule i.
AllMatches(rs, p) ==
    UNION {{<<i, k>> : k \in 1 .. Len(FindAllIndex(rs[i].re, p))} : i \in 1 .. Len(rs)}

\* C5 (as claimed): when exactly one rule matches exactly one span, a Write
\* that met no sink error sends exactly two colour sequences to the sink and
\* prints the trailing reset.
C5_TwoPerSpan ==
    (WriteOK /\ Cardinality(AllMatches(rules, last.p)) = 1) =>
        /\ Cardinality(EscCalls(calls)) = 2
        /\ stdout = ASCIIReset

\* C5 (amended): a Write that met no sink error sends one colour sequence to
\* the sink in front of each byte whose huemap index differs from that of the
\* byte before it (0 before the first byte) and nowhere else, and then prints
\* one reset sequence: one sequence per run of equal index, none for a run of
\* index 0 at the start of the buffer.  A buffer whose only coloured bytes
\* are one span of one index so costs two sequences when the span ends before
\* the end of the buffer and one when it reaches the end.
C5_OnePerChange ==
    WriteOK =>
        /\ Cardinality(EscCalls(calls)) = Cardinality(Changes(huemap))
        /\ \A k \in EscCalls(calls) :
              /\ k < Len(calls)
              /\ ~calls[k + 1].esc
              /\ ByteAfter(calls, k) \in Changes(huemap)
        /\ Cardinality(ByteCalls(calls)) = Len(last.p)
        /\ stdout = ASCIIReset
        /\ \A a \in 0 .. Len(huemap), b \in 1 .. Len(huemap) :
              (/\ a < b
               /\ \A j \in 1 .. Len(huemap) :
                     IF a < j /\ j <= b THEN huemap[j] = huemap[b] ELSE huemap[j] = 0
               /\ huemap[b] # 0)
              => Cardinality(EscCalls(calls)) = (IF b = Len(huemap) THEN 1 ELSE 2)

\* One rule, one match strictly inside the buffer: two colour sequences.
C5_Witness ==
    /\ WriteOK
    /\ Len(rules) = 1
    /\ last.p = <<97, 88, 97>>
    /\ huemap = <<0, 1, 0>>
    /\ Cardinality(EscCalls(calls)) = 2

\* C6 (as claimed): the payload bytes sent to the sink by a Write that met no
\* sink error are the input bytes, one for one and in order.
C6_PayloadVerbatim == WriteOK => Payload(calls) = last.p

\* C7 (as claimed): n is the number of bytes the sink accepted during the
\* call, those of a write cut short included; err tells whether a sink write
\* failed; no write follows a failed write; and a call without error has
\* sent the trailing reset sequence to the sink and counted it.
C7_ReturnContract ==
    WriteDone =>
        /\ ret.n = Accepted(calls)
        /\ ret.err = (\E k \in 1 .. Len(calls) : calls[k].err)
        /\ \A k \in 1 .. Len(calls) : calls[k].err => k = Len(calls)
        /\ ~ret.err =>
              /\ Len(calls) > 0
              /\ calls[Len(calls)].buf = ASCIIReset

\* C11 (as claimed): whatever the number of rules, a byte covered by a match
\* of rule i and by no rule added after rule i has index i in huemap, never
\* i mod 256, and when the Write met no sink error it is written under the
\* colour of rule i.
C11_NoIndexWrap ==
    WriteDone =>
        \A j \in 1 .. Len(last.p) :
            LET i == LastCovering(rules, last.p, j)
            IN  i # 0 =>
                  /\ huemap[j] = i
                  /\ ~ret.err =>
                        InForce(calls, j) = ASCIIFmt(rules[i].hue.fg, rules[i].hue.bg)

\* What a writer that never had a rule writes for p on the sink snk.
FreshWrite(p, snk) == WriteLoop(p, [j \in 1 .. Len(p) |-> 0], <<>>, snk, 1, 0, 0, <<>>)

\* C9: the rule list is exactly the rules added since construction or the
\* last FlushRules, in the order added; after one FlushRules or several in a
\* row it is empty; and a Write with no rule added since the last flush does
\* what a writer that never had a rule does.
C9_Flush ==
    /\ rules = added
    /\ flushed >= 1 => (rules = <<>> /\ last.op = "FlushRules")
    /\ last.op = "FlushRules" => rules = <<>>
    /\ (WriteDone /\ added = <<>>) =>
          /\ calls = FreshWrite(last.p, last.snk).calls
          /\ ret.n = FreshWrite(last.p, last.snk).n
          /\ ret.err = FreshWrite(last.p, last.snk).err
          /\ stdout = FreshWrite(last.p, last.snk).stdout
          /\ EscCalls(calls) = {}

\* A Write of a non-empty buffer containing 'X' after a flush removed rules.
C9_Witness ==
    /\ WriteOK
    /\ hadRules
    /\ rules = <<>>
    /\ \E j \in 1 .. Len(last.p) : last.p[j] = 88

----------------------------------------------------------------------------
(* Properties of Writer (specification SpecWriter) *)

WriterWriteDone == pc = "done" /\ last.op = "Writer.Write"

\* C10: Writer.Write(p) makes exactly one write to the sink, of the 8-byte
\* colour sequence of the hue most recently given to NewWriter or SetHue, then
\* p unchanged, then the 4-byte reset sequence; it returns the (n, err) of
\* that write, so n = Len(p) + 12 when the sink took everything.
C10_WriterWrite ==
    WriterWriteDone =>
        /\ whue = hset.hue
        /\ Len(calls) = 1
        /\ calls[1].buf = ASCIIFmt(hset.hue.fg, hset.hue.bg) \o last.p \o ASCIIReset
        /\ Len(calls[1].buf) = Len(last.p) + 12
        /\ SubSeq(calls[1].buf, 9, 8 + Len(last.p)) = last.p
        /\ ret = [n |-> calls[1].nb, err |-> calls[1].err]
        /\ ret.n = (IF last.snk.limited /\ last.snk.room < Len(calls[1].buf)
                    THEN last.snk.room
                    ELSE Len(last.p) + 12)
        /\ ret.err = (ret.n < Len(last.p) + 12)
        /\ stdout = <<>>

\* A full write of a non-empty buffer under a hue installed by SetHue.
C10_Witness ==
    /\ WriterWriteDone
    /\ hset.by = "SetHue"
    /\ hset.hue = New(Red, Blue)
    /\ Len(last.p) = MaxLen
    /\ ~ret.err
    /\ ret.n = MaxLen + 12

----------------------------------------------------------------------------
(* Properties of Encode and Decode (specification SpecCodec) *)

DecodeDone == pc = "done" /\ last.op = "Decode"

\* C3: Encode puts exactly 8 bytes, ESC [ d d ; d d m, in front of the text
\* and the 4 bytes ESC [ 0 m behind it, and Decode of the whole encoded
\* string returns the text.
C3_RoundTrip ==
    /\ src.rev # "none" =>
          /\ Len(hs) = Len(src.text) + 12
          /\ SubSeq(hs, 1, 2) = <<27, 91>>
          /\ \A i \in {3, 4, 6, 7} : hs[i] \in 48 .. 57
          /\ hs[5] = 59
          /\ hs[8] = 109
          /\ SubSeq(hs, Len(hs) - 3, Len(hs)) = ASCIIReset
          /\ \A i \in 1 .. Len(src.text) : hs[8 + i] = src.text[i]
    /\ (DecodeDone /\ last.p = hs) =>
          /\ ~dec.panic
          /\ dec.s = src.text

\* The round trip of a longest text that starts with ESC, under a hue made
\* with SetFg and SetBg.
C3_Witness ==
    /\ DecodeDone
    /\ last.p = hs
    /\ src.rev = "hue"
    /\ src.fg = Default
    /\ src.bg = Black
    /\ Len(src.text) = MaxLen
    /\ src.text[1] = 27
    /\ dec.s = src.text

\* C8: Decode fails on a String shorter than 12 bytes, and on a String of 12
\* bytes or more it returns the bytes at offsets 8 .. len-5, which is the
\* empty string when the length is 12; either way the encoded string it was
\* given is still what Encode made.
C8_MinLength ==
    DecodeDone =>
        /\ last.p = SubSeq(hs, 1, Len(last.p))
        /\ hs = (IF src.rev = "hue"
                 THEN Encode(New(src.fg, src.bg), src.text)
                 ELSE Encode_v0([fg |-> src.fg, bg |-> src.bg], src.text))
        /\ Len(last.p) < 12 => (dec.panic /\ dec.s = <<>>)
        /\ Len(last.p) >= 12 =>
              /\ ~dec.panic
              /\ Len(dec.s) = Len(last.p) - 12
              /\ \A i \in 1 .. Len(dec.s) : dec.s[i] = last.p[8 + i]
        /\ Len(last.p) = 12 => dec.s = <<>>

\* Decode of an 11-byte String fails.
C8_Witness ==
    /\ DecodeDone
    /\ Len(last.p) = 11
    /\ dec.panic

====
